---- MODULE Spec2Model ----
(***************************************************************************)
(* navi-calendar-bot: discovery of upcoming matches on bo3.gg and their    *)
(* synchronisation into a Google calendar.  Two programs are modelled:     *)
(*   bo3   src/bo3_calendar.py   (URL variants, fallback tiers, dedup,     *)
(*                                optional duplicate check)                *)
(*   navi  src/navi_calendar.py  (single fetch, no dedup, duplicate check) *)
(*                                                                         *)
(* Times are minutes since 2025-01-01 00:00.  A "wall" value is a          *)
(* Europe/Kyiv wall-clock reading, an "instant" is the same in UTC.        *)
(* A summary is the sequence of its words, "vs" and the em dash included,  *)
(* so that split(" vs "), split(" — ") and startswith are computed on it.  *)
(***************************************************************************)
EXTENDS Integers, Sequences, FiniteSets, TLC

VARIABLES
    prog,               \* which script runs: "bo3" or "navi"
    STRICT_DUP_CHECK,   \* bo3_calendar.py:25, read from the environment
    calendarAccessible, \* whether the service account may use CALENDAR_ID
    site,               \* the state of the site, an index of Sites
    run,                \* number of the current invocation of main()
    pc,                 \* position inside main()
    err,                \* the exception that ended main(), or "none"
    vi,                 \* index of the next URL variant try_fetch_variants will fetch
    fetched,            \* fetches of this run, in order: <<"variant" | "failed" | "detail", n>>
    all_matches,        \* main(): candidates discovered so far
    matches_final,      \* main(): the candidates handed to create_events
    idx,                \* create_events: index of the next candidate
    events,             \* calendar store: events a list query reflects
    pending,            \* calendar store: inserted events a list query does not reflect yet
    calls,              \* calendar calls issued by this run: [op, summary, start, ok]
    failures,           \* transient calendar failures so far
    prev,               \* the previous run: [pc, final, events (the store when it ended)]
    siteChanged,        \* the site changed since the previous run
    lagged,             \* list queries of this run may have missed an inserted event
    yq                  \* the year query of SpecYear: [prog, today, month, day, href, result]

vars == <<prog, STRICT_DUP_CHECK, calendarAccessible, site, run, pc, err, vi,
          fetched, all_matches, matches_final, idx, events, pending, calls, failures,
          prev, siteChanged, lagged, yq>>

(***************************************************************************)
(* Bounds of the model.                                                    *)
(***************************************************************************)
MaxRuns == 2
MaxFailures == 1

(***************************************************************************)
(* Calendar arithmetic (datetime.date, datetime.datetime, pytz).           *)
(***************************************************************************)
IsLeap(y) == (y % 4 = 0 /\ y % 100 # 0) \/ y % 400 = 0

DaysInMonth(y, m) ==
    IF m = 2 THEN (IF IsLeap(y) THEN 29 ELSE 28)
    ELSE IF m \in {4, 6, 9, 11} THEN 30 ELSE 31

\* date(y, m, d) raises ValueError unless this holds
ValidDate(y, m, d) == m \in 1..12 /\ d >= 1 /\ d <= DaysInMonth(y, m)

\* date.__ge__ : a >= b on <<year, month, day>>
DateGE(a, b) ==
    \/ a[1] > b[1]
    \/ a[1] = b[1] /\ a[2] > b[2]
    \/ a[1] = b[1] /\ a[2] = b[2] /\ a[3] >= b[3]

RECURSIVE DaysBeforeYear(_)
DaysBeforeYear(y) ==
    IF y = 2025 THEN 0
    ELSE IF y > 2025 THEN DaysBeforeYear(y - 1) + (IF IsLeap(y - 1) THEN 366 ELSE 365)
    ELSE DaysBeforeYear(y + 1) - (IF IsLeap(y) THEN 366 ELSE 365)

RECURSIVE DaysBeforeMonth(_, _)
DaysBeforeMonth(y, m) ==
    IF m <= 1 THEN 0 ELSE DaysBeforeMonth(y, m - 1) + DaysInMonth(y, m - 1)

\* days from 2025-01-01 to y-m-d
Ordinal(y, m, d) == DaysBeforeYear(y) + DaysBeforeMonth(y, m) + (d - 1)

\* 0 = Monday .. 6 = Sunday; 2025-01-01 is a Wednesday
Weekday(y, m, d) == (Ordinal(y, m, d) + 2) % 7

LastSunday(y, m) ==
    CHOOSE d \in 1..DaysInMonth(y, m) :
        /\ Weekday(y, m, d) = 6
        /\ d + 7 > DaysInMonth(y, m)

\* datetime(y, m, d, hh, mm) as minutes since 2025-01-01 00:00
Minutes(y, m, d, hh, mm) == Ordinal(y, m, d) * 1440 + hh * 60 + mm

\* datetime(y, m, d, hh, mm) raises ValueError unless this holds
ValidDateTime(y, m, d, hh, mm) == ValidDate(y, m, d) /\ hh \in 0..23 /\ mm \in 0..59

\* the years the model's dates fall in
Years == 2024..2031

\* Europe/Kyiv summer time: from the last Sunday of March, 00:00, to the last Sunday
\* of October, 00:00, per year; the switches are at 01:00 UTC
SummerFrom == [y \in Years |-> Minutes(y, 3, LastSunday(y, 3), 0, 0)]
SummerTo == [y \in Years |-> Minutes(y, 10, LastSunday(y, 10), 0, 0)]
YearStart == [y \in Years \cup {2032} |-> Minutes(y, 1, 1, 0, 0)]

\* Europe/Kyiv: UTC+3 in summer time, UTC+2 otherwise
UtcToKyiv(y, utc) ==
    IF utc >= SummerFrom[y] + 60 /\ utc < SummerTo[y] + 60
    THEN utc + 180 ELSE utc + 120

\* tz.localize(naive), is_dst=False: the offset of a Kyiv wall-clock reading
KyivOffset(y, wall) ==
    IF wall >= SummerFrom[y] + 240 /\ wall < SummerTo[y] + 180
    THEN 180 ELSE 120

\* the year a minute count falls in
YearOf(t) == CHOOSE y \in Years : YearStart[y] <= t /\ t < YearStart[y + 1]

(***************************************************************************)
(* Year of a match whose label has none.                                   *)
(***************************************************************************)
\* an href is [id, year]: year is the YYYY of a trailing DD-MM-YYYY, 0 without one;
\* id 0 is the empty href
NoHref == [id |-> 0, year |-> 0]

\* date(today.year, month, day) raises ValueError
infer_year_raises(href, month, day, now) ==
    href.year = 0 /\ ~ValidDate(now[1], month, day)

infer_year(href, month, day, now) ==
    IF href.year # 0 THEN href.year
    ELSE IF DateGE(<<now[1], month, day>>, now) THEN now[1] ELSE now[1] + 1

\* navi_calendar.py: the year of the link, else the current year
navi_year(href, now) ==
    IF href.year # 0 THEN href.year ELSE now[1]

\* datetime.strptime(text, "%b %d") / "%B %d": the year defaults to 1900
StrptimeMD(md) == md # <<>> /\ ValidDate(1900, md[1], md[2])

(***************************************************************************)
(* Documents.  A document is [rows, raw]: rows are its table rows, raw the *)
(* occurrences of match hrefs in its text with what the 600-character      *)
(* window around each holds.  A label is <<>> when the text has none, a    *)
(* date label is <<month, day>> (month 0: no month name strptime accepts), *)
(* a time label is <<hh, mm>> as the digits read.                          *)
(*                                                                         *)
(* Row fields: upcoming (class table-row--upcoming), href, teams (the      *)
(* .team-name texts), vs (the teams of an "A vs B" in the row text, or     *)
(* <<>>), navi (the row text mentions the tracked team), bo, tournament,   *)
(* date, time (the .date cell), textMD, textHM (the first Month-Day and    *)
(* HH:MM of the flattened row text), detail (what fetching the match page  *)
(* gives: [ok, iso, md, hm], iso a UTC <<y, m, d, hh, mm>>).               *)
(***************************************************************************)
Summary(team1, team2, bo, tournament) ==
    <<team1, "vs", team2>>
        \o (IF bo # "" THEN <<bo>> ELSE <<>>)
        \o (IF tournament # "" THEN <<"--", tournament>> ELSE <<>>)

\* bo3_calendar.py:22, the default of the environment variable
SCRAPED_TIME_IS_UTC == TRUE

\* the naive datetime a source gives, as a Kyiv wall-clock reading
ToLocal(y, naive) == IF SCRAPED_TIME_IS_UTC THEN UtcToKyiv(y, naive) ELSE naive

Candidate(summary, start, link, tournament, bo) ==
    [summary |-> summary, start_dt_str |-> start, end_dt_str |-> start + 120,
     link |-> link, tournament |-> tournament, bo |-> bo]

\* parse_detail_datetime: [out |-> "none" | "start" | "raise", start]
parse_detail_datetime(detail, href_tail, now) ==
    IF ~detail.ok THEN [out |-> "none", start |-> 0]
    ELSE IF detail.iso # <<>>
    THEN LET i == detail.iso
         IN  [out |-> "start",
              start |-> UtcToKyiv(i[1], Minutes(i[1], i[2], i[3], i[4], i[5]))]
    ELSE IF detail.md = <<>> \/ detail.hm = <<>> THEN [out |-> "none", start |-> 0]
    ELSE IF ~StrptimeMD(detail.md) THEN [out |-> "none", start |-> 0]
    ELSE LET m == detail.md[1]
             d == detail.md[2]
             y == infer_year(href_tail, m, d, now)
         IN  IF infer_year_raises(href_tail, m, d, now)
                \/ ~ValidDateTime(y, m, d, detail.hm[1], detail.hm[2])
             THEN [out |-> "raise", start |-> 0]
             ELSE [out |-> "start",
                   start |-> ToLocal(y, Minutes(y, m, d, detail.hm[1], detail.hm[2]))]

\* the teams of a row, <<>> when the row is skipped for having none
RowTeams(row) ==
    IF Len(row.teams) >= 2 THEN <<row.teams[1], row.teams[2]>>
    ELSE IF row.vs # <<>> THEN row.vs
    ELSE IF ~row.navi THEN <<>>
    ELSE <<"Natus Vincere", "TBD">>

\* the date and time labels after the row-text fallback: <<date_text, time_text>>
RowLabels(row) ==
    IF row.date # <<>> /\ row.time # <<>> THEN <<row.date, row.time>>
    ELSE IF row.textMD # <<>> /\ row.textHM # <<>> THEN <<row.textMD, row.textHM>>
    ELSE <<row.date, row.time>>

\* start_local composed from the labels of the row, <<>> for None
RowStart(row, now) ==
    LET date_text == RowLabels(row)[1]
        time_text == RowLabels(row)[2]
    IN  IF date_text = <<>> \/ time_text = <<>> THEN <<>>
        ELSE IF ~StrptimeMD(date_text) THEN <<>>
        ELSE LET m == date_text[1]
                 d == date_text[2]
                 y == infer_year(row.href, m, d, now)
             IN  IF infer_year_raises(row.href, m, d, now)
                    \/ ~ValidDateTime(y, m, d, time_text[1], time_text[2])
                 THEN <<>>
                 ELSE <<ToLocal(y, Minutes(y, m, d, time_text[1], time_text[2]))>>

\* one iteration of the loop of parse_table_rows:
\* [out |-> "emit" | "drop" | "raise", cand, detail (the detail page was fetched), tier]
ParseRow(row, now) ==
    LET teams == RowTeams(row)
        local == RowStart(row, now)
        det   == parse_detail_datetime(row.detail, row.href, now)
        none  == Candidate(<<>>, 0, 0, "", "")
    IN  IF teams = <<>> THEN [out |-> "drop", cand |-> none, detail |-> FALSE, tier |-> "teams"]
        ELSE IF local # <<>>
        THEN [out |-> "emit", detail |-> FALSE,
              tier |-> IF row.date # <<>> /\ row.time # <<>> THEN "fields" ELSE "text",
              cand |-> Candidate(Summary(teams[1], teams[2], row.bo, row.tournament),
                                 local[1], row.href.id, row.tournament, row.bo)]
        ELSE IF row.href.id = 0
        THEN [out |-> "drop", cand |-> none, detail |-> FALSE, tier |-> "none"]
        ELSE IF det.out = "raise"
        THEN [out |-> "raise", cand |-> none, detail |-> TRUE, tier |-> "detail"]
        ELSE IF det.out = "none"
        THEN [out |-> "drop", cand |-> none, detail |-> TRUE, tier |-> "none"]
        ELSE [out |-> "emit", detail |-> TRUE,
              tier |-> IF row.detail.iso # <<>> THEN "iso" ELSE "detailtext",
              cand |-> Candidate(Summary(teams[1], teams[2], row.bo, row.tournament),
                                 det.start, row.href.id, row.tournament, row.bo)]

\* parse_table_rows: [matches, raised, details (hrefs of the detail pages fetched)]
RECURSIVE parse_table_rows_from(_, _, _, _)
parse_table_rows_from(rows, i, now, acc) ==
    IF i > Len(rows) THEN acc
    ELSE LET r == ParseRow(rows[i], now)
             det == IF r.detail THEN Append(acc.details, rows[i].href.id) ELSE acc.details
         IN  IF r.out = "raise"
             THEN [matches |-> acc.matches, raised |-> TRUE, details |-> det]
             ELSE parse_table_rows_from(rows, i + 1, now,
                     [matches |-> IF r.out = "emit" THEN Append(acc.matches, r.cand)
                                  ELSE acc.matches,
                      raised |-> FALSE, details |-> det])

parse_table_rows(rows, now) ==
    parse_table_rows_from(rows, 1, now, [matches |-> <<>>, raised |-> FALSE, details |-> <<>>])

\* one window of raw_scan_matches around an occurrence of an href: <<>> or <<candidate>>
RawWindow(o, now) ==
    LET teams == IF o.vs # <<>> THEN o.vs
                 ELSE IF o.navi THEN <<"Natus Vincere", "TBD">> ELSE <<>>
    IN  IF o.md = <<>> \/ o.hm = <<>> THEN <<>>
        ELSE IF teams = <<>> THEN <<>>
        ELSE IF ~StrptimeMD(o.md) THEN <<>>
        ELSE LET m == o.md[1]
                 d == o.md[2]
                 y == infer_year(o.href, m, d, now)
             IN  IF ~ValidDateTime(y, m, d, o.hm[1], o.hm[2]) THEN <<>>
                 ELSE <<Candidate(Summary(teams[1], teams[2], "", o.tour),
                                  ToLocal(y, Minutes(y, m, d, o.hm[1], o.hm[2])),
                                  o.href.id, "", "")>>

\* raw_scan_matches: for each distinct href, in the order of first occurrence, the
\* candidate of its first window that yields one
RECURSIVE raw_scan_from(_, _, _)
raw_scan_from(raw, i, now) ==
    IF i > Len(raw) THEN <<>>
    ELSE LET h == raw[i].href
             ok == {j \in 1..Len(raw) : raw[j].href = h /\ RawWindow(raw[j], now) # <<>>}
             first == CHOOSE j \in ok : \A k \in ok : j <= k
         IN  (IF (\E j \in 1..(i - 1) : raw[j].href = h) \/ ok = {} THEN <<>>
              ELSE RawWindow(raw[first], now))
                \o raw_scan_from(raw, i + 1, now)

raw_scan_matches(raw, now) == raw_scan_from(raw, 1, now)

\* one iteration of the loop of navi_calendar.parse_upcoming_matches: <<>> or <<candidate>>
NaviRow(row, now) ==
    LET teams == IF Len(row.teams) >= 2 THEN <<row.teams[1], row.teams[2]>>
                 ELSE IF Len(row.teams) = 1 THEN <<row.teams[1], "TBD">>
                 ELSE <<"Natus Vincere", "TBD">>
        year_int == navi_year(row.href, now)
    IN  IF row.href.id = 0 THEN <<>>
        ELSE IF row.date = <<>> \/ row.time = <<>> THEN <<>>
        ELSE IF ~ValidDateTime(year_int, row.date[1], row.date[2], row.time[1], row.time[2])
        THEN <<>>
        ELSE <<Candidate(Summary(teams[1], teams[2], row.bo, row.tournament),
                         Minutes(year_int, row.date[1], row.date[2], row.time[1], row.time[2]),
                         row.href.id, row.tournament, row.bo)>>

RECURSIVE parse_upcoming_from(_, _, _)
parse_upcoming_from(rows, i, now) ==
    IF i > Len(rows) THEN <<>>
    ELSE (IF rows[i].upcoming THEN NaviRow(rows[i], now) ELSE <<>>)
            \o parse_upcoming_from(rows, i + 1, now)

parse_upcoming_matches(doc, now) == parse_upcoming_from(doc.rows, 1, now)

(***************************************************************************)
(* Aggregation: bo3_calendar.main, the dict keyed by (summary, start).     *)
(***************************************************************************)
Key(m) == <<m.summary, m.start_dt_str>>

\* the value the dict holds for the key of ms[i] once every record is stored
UniqValue(ms, i) ==
    ms[CHOOSE j \in 1..Len(ms) :
            /\ Key(ms[j]) = Key(ms[i])
            /\ \A k \in (j + 1)..Len(ms) : Key(ms[k]) # Key(ms[i])]

\* list(uniq.values()): keys in the order of first insertion
RECURSIVE dedup_from(_, _)
dedup_from(ms, i) ==
    IF i > Len(ms) THEN <<>>
    ELSE (IF \E j \in 1..(i - 1) : Key(ms[j]) = Key(ms[i]) THEN <<>>
          ELSE <<UniqValue(ms, i)>>)
            \o dedup_from(ms, i + 1)

Dedup(ms) == dedup_from(ms, 1)

(***************************************************************************)
(* The calendar store and the duplicate check.  A stored event is          *)
(* [id, summary, start, end, link] with start and end as instants.         *)
(***************************************************************************)
RECURSIVE SplitOn(_, _)
\* str.split(sep) on the words of a summary
SplitOn(s, sep) ==
    IF \A i \in 1..Len(s) : s[i] # sep THEN <<s>>
    ELSE LET i == CHOOSE k \in 1..Len(s) : s[k] = sep /\ \A j \in 1..(k - 1) : s[j] # sep
         IN  <<SubSeq(s, 1, i - 1)>> \o SplitOn(SubSeq(s, i + 1, Len(s)), sep)

RECURSIVE JoinWith(_, _)
\* sep.join(parts)
JoinWith(parts, sep) ==
    IF Len(parts) = 0 THEN <<>>
    ELSE IF Len(parts) = 1 THEN parts[1]
    ELSE parts[1] \o <<sep>> \o JoinWith(Tail(parts), sep)

FirstTwo(parts) == SubSeq(parts, 1, IF Len(parts) < 2 THEN Len(parts) ELSE 2)

\* " vs ".join(summary.split(" vs ")[:2])
Bo3Key(summary) == JoinWith(FirstTwo(SplitOn(summary, "vs")), "vs")

\* summary.split(" -- ")[0]
NaviQuery(summary) == SplitOn(summary, "--")[1]

StartsWith(s, prefix) == Len(prefix) <= Len(s) /\ SubSeq(s, 1, Len(prefix)) = prefix

\* the instant of a Kyiv wall-clock reading
Instant(wall) == wall - KyivOffset(YearOf(wall), wall)

\* events().list(timeMin, timeMax, q): the reflected events that end after timeMin,
\* start before timeMax and hold every word of q
ListEvents(timeMin, timeMax, q) ==
    {ev \in events :
        /\ ev.end > timeMin
        /\ ev.start < timeMax
        /\ \A i \in 1..Len(q) : \E j \in 1..Len(ev.summary) : ev.summary[j] = q[i]}

Bo3HasDuplicate(m) ==
    LET start_dt == Instant(m.start_dt_str)
        items == ListEvents(start_dt - 180, start_dt + 180, Bo3Key(m.summary))
    IN  \E ev \in items : StartsWith(ev.summary, Bo3Key(m.summary))

NaviHasDuplicate(m) ==
    LET start_dt == Instant(m.start_dt_str)
        items == ListEvents(start_dt - 60, start_dt + 180, NaviQuery(m.summary))
    IN  \E ev \in items : ev.summary = m.summary

\* whether create_events queries the calendar before inserting
ChecksDuplicates == prog = "navi" \/ STRICT_DUP_CHECK

\* a duplicate check that looks only at events starting at the candidate's start or later
has_duplicate_event_later(m) ==
    \E ev \in events :
        /\ ev.start > Instant(m.start_dt_str)
        /\ ev.start < Instant(m.start_dt_str) + 180
        /\ ev.summary = m.summary

\* a duplicate check whose window ends one hour after the candidate's start
has_duplicate_event_narrow(m) ==
    LET start_dt == Instant(m.start_dt_str)
        items == ListEvents(start_dt - 60, start_dt + 60, NaviQuery(m.summary))
    IN  \E ev \in items : ev.summary = m.summary

has_duplicate_event(m) ==
    IF prog = "navi" THEN NaviHasDuplicate(m) ELSE Bo3HasDuplicate(m)

\* the event events().insert stores for a candidate
NewEvent(m) ==
    [id |-> Cardinality(events) + Cardinality(pending) + 1,
     summary |-> m.summary,
     start |-> Instant(m.start_dt_str),
     end |-> IF prog = "navi" THEN Instant(m.start_dt_str) + 120
             ELSE Instant(m.end_dt_str),
     link |-> m.link]

(***************************************************************************)
(* The site: the documents the model draws from.                           *)
(***************************************************************************)
NoDetail == [ok |-> FALSE, iso |-> <<>>, md |-> <<>>, hm |-> <<>>]

BaseRow ==
    [upcoming |-> TRUE, href |-> NoHref, teams |-> <<"Natus Vincere", "Vitality">>,
     vs |-> <<>>, navi |-> TRUE, bo |-> "Bo3", tournament |-> "Winter Cup",
     date |-> <<>>, time |-> <<>>, textMD |-> <<>>, textHM |-> <<>>, detail |-> NoDetail]

\* a well-formed row: Sep 18, 18:30, with a match link
RowGood ==
    [BaseRow EXCEPT !.href = [id |-> 1, year |-> 0], !.date = <<9, 18>>, !.time = <<18, 30>>,
                    !.textMD = <<9, 18>>, !.textHM = <<18, 30>>]

\* the same match listed again under another link
RowRelinked == [RowGood EXCEPT !.href = [id |-> 2, year |-> 0]]

\* the same match, 90 minutes later
RowShifted == [RowGood EXCEPT !.time = <<20, 0>>, !.textHM = <<20, 0>>]

\* the same match before its tournament is known
RowUntitled == [RowGood EXCEPT !.tournament = ""]

\* another match of the same day, against another team
RowOther ==
    [RowGood EXCEPT !.href = [id |-> 6, year |-> 2025], !.teams = <<"Natus Vincere", "FaZe">>,
                    !.time = <<15, 0>>, !.textHM = <<15, 0>>]

\* a row with neither date nor time, and no link
RowBare == BaseRow

\* a row with neither date nor time whose match page carries a startDate
RowDetailIso ==
    [BaseRow EXCEPT !.href = [id |-> 3, year |-> 0], !.teams = <<"Natus Vincere", "G2">>,
                    !.detail = [ok |-> TRUE, iso |-> <<2025, 9, 20, 15, 0>>,
                                md |-> <<>>, hm |-> <<>>]]

\* a row with neither date nor time whose match page reads "Sep 21 ... 31:99"
RowDetailBad ==
    [BaseRow EXCEPT !.href = [id |-> 4, year |-> 0],
                    !.detail = [ok |-> TRUE, iso |-> <<>>, md |-> <<9, 21>>, hm |-> <<31, 99>>]]

\* a row with neither date nor time whose match page cannot be fetched
RowDetailFail == [BaseRow EXCEPT !.href = [id |-> 5, year |-> 0]]

\* a row whose date and time stand only in its text, with one team cell
RowTextOnly ==
    [BaseRow EXCEPT !.teams = <<"Natus Vincere">>, !.vs = <<"Natus Vincere", "MOUZ">>,
                    !.textMD = <<1, 5>>, !.textHM = <<12, 0>>]

\* a finished match: not of class table-row--upcoming
RowFinished == [RowOther EXCEPT !.upcoming = FALSE, !.href = [id |-> 7, year |-> 2025]]

RawOcc(href, md, hm) ==
    [href |-> href, md |-> md, hm |-> hm, vs |-> <<"Natus Vincere", "Vitality">>,
     navi |-> TRUE, tour |-> "Winter Cup"]

DocEmpty == [rows |-> <<>>, raw |-> <<>>]
DocListing == [rows |-> <<RowGood, RowBare>>, raw |-> <<>>]
DocRepeated == [rows |-> <<RowGood, RowOther, RowRelinked, RowUntitled>>, raw |-> <<>>]
DocMoved == [rows |-> <<RowShifted, RowDetailIso, RowFinished>>, raw |-> <<>>]
DocBroken == [rows |-> <<RowTextOnly, RowDetailFail, RowDetailBad, RowGood>>, raw |-> <<>>]
\* a listing whose second row has no date and no time, but a match page that reads
\* "Sep 21" and "31:99"
DocOvertime == [rows |-> <<RowGood, RowDetailBad>>, raw |-> <<>>]
\* a page whose table is rendered by a script: only hrefs and text around them
DocScripted ==
    [rows |-> <<>>,
     raw |-> <<RawOcc([id |-> 1, year |-> 0], <<>>, <<18, 30>>),
               RawOcc([id |-> 6, year |-> 2025], <<9, 18>>, <<15, 0>>),
               RawOcc([id |-> 1, year |-> 0], <<9, 18>>, <<18, 30>>)>>]

NumVariants == 5

\* the states of the site the model draws from: what each URL variant serves
Sites ==
    << [v \in 1..NumVariants |-> DocListing],
       [v \in 1..NumVariants |-> DocRepeated],
       [v \in 1..NumVariants |-> DocMoved],
       [v \in 1..NumVariants |-> DocEmpty],
       [v \in 1..NumVariants |-> IF v = 1 THEN DocEmpty ELSE IF v = 2 THEN DocScripted ELSE DocListing],
       [v \in 1..NumVariants |-> IF v < 3 THEN DocEmpty ELSE DocBroken],
       [v \in 1..NumVariants |-> DocOvertime] >>

\* datetime.now(tz).date() of the runs
Today == <<2025, 9, 1>>

\* what the parsers make of each page of each state of the site (they are functions
\* of the page and of today)
TableOf ==
    [s \in DOMAIN Sites |-> [v \in 1..NumVariants |-> parse_table_rows(Sites[s][v].rows, Today)]]
RawOf ==
    [s \in DOMAIN Sites |-> [v \in 1..NumVariants |-> raw_scan_matches(Sites[s][v].raw, Today)]]
UpcomingOf ==
    [s \in DOMAIN Sites |-> parse_upcoming_matches(Sites[s][1], Today)]

(***************************************************************************)
(* main(): one run after another against the same calendar.                *)
(***************************************************************************)
NoQuery == [prog |-> "none", today |-> <<0, 0, 0>>, month |-> 0, day |-> 0, href |-> NoHref,
            result |-> 0]

Init ==
    /\ prog \in {"bo3", "navi"}
    /\ STRICT_DUP_CHECK \in (IF prog = "bo3" THEN BOOLEAN ELSE {FALSE})
    /\ calendarAccessible \in BOOLEAN
    /\ site \in DOMAIN Sites
    /\ run = 1
    /\ pc = "idle"
    /\ err = "none"
    /\ vi = 1
    /\ fetched = <<>>
    /\ all_matches = <<>>
    /\ matches_final = <<>>
    /\ idx = 1
    /\ events = {}
    /\ pending = {}
    /\ calls = <<>>
    /\ failures = 0
    /\ prev = [pc |-> "none", final |-> <<>>, events |-> {}]
    /\ siteChanged = FALSE
    /\ lagged = FALSE
    /\ yq = NoQuery

config == <<prog, STRICT_DUP_CHECK, calendarAccessible, yq>>
store == <<events, pending, failures>>
ledger == <<calls, lagged>>
discovery == <<vi, fetched, all_matches>>

\* main: GOOGLE_CREDENTIALS_JSON is missing
MissingCredentials ==
    /\ pc = "idle"
    /\ pc' = "failed"
    /\ err' = "config"
    /\ fetched' = <<>>
    /\ all_matches' = <<>>
    /\ matches_final' = <<>>
    /\ vi' = 1
    /\ idx' = 1
    /\ calls' = <<>>
    /\ lagged' = (pending # {})
    /\ UNCHANGED <<config, store, site, run, prev, siteChanged>>

\* main: the credentials load and the service is built
StartRun ==
    /\ pc = "idle"
    /\ pc' = "discover"
    /\ err' = "none"
    /\ fetched' = <<>>
    /\ all_matches' = <<>>
    /\ matches_final' = <<>>
    /\ vi' = 1
    /\ idx' = 1
    /\ calls' = <<>>
    /\ lagged' = (pending # {})
    /\ UNCHANGED <<config, store, site, run, prev, siteChanged>>

\* a fetch_html that lets the request's exception through
FetchVariantFails_Raises ==
    /\ pc = "discover" /\ prog = "bo3" /\ vi <= NumVariants
    /\ fetched' = Append(fetched, <<"failed", vi>>)
    /\ pc' = "failed"
    /\ err' = "fetch"
    /\ UNCHANGED <<config, store, ledger, site, run, prev, siteChanged, vi, all_matches,
                   matches_final, idx>>

\* try_fetch_variants: fetch_html returns None for the variant
FetchVariantFails ==
    /\ pc = "discover" /\ prog = "bo3" /\ vi <= NumVariants
    /\ fetched' = Append(fetched, <<"failed", vi>>)
    /\ vi' = vi + 1
    /\ UNCHANGED <<config, store, ledger, site, run, prev, siteChanged, pc, err, all_matches,
                   matches_final, idx>>

DetailTags(ids) == [i \in 1..Len(ids) |-> <<"detail", ids[i]>>]

\* a loop over try_fetch_variants without its break
FetchVariant_NoBreak ==
    /\ pc = "discover" /\ prog = "bo3" /\ vi <= NumVariants
    /\ LET t == TableOf[site][vi]
           raw_matches == IF t.matches = <<>> THEN RawOf[site][vi] ELSE <<>>
       IN  /\ fetched' = Append(fetched, <<"variant", vi>>) \o DetailTags(t.details)
           /\ IF t.raised
              THEN /\ pc' = "failed"
                   /\ err' = "parse"
                   /\ UNCHANGED <<all_matches, vi>>
              ELSE /\ all_matches' = all_matches \o t.matches \o raw_matches
                   /\ err' = err
                   /\ pc' = pc
                   /\ vi' = vi + 1
    /\ UNCHANGED <<config, store, ledger, site, run, prev, siteChanged, matches_final, idx>>

\* main: one iteration of the loop over try_fetch_variants with a fetched page
FetchVariant ==
    /\ pc = "discover" /\ prog = "bo3" /\ vi <= NumVariants
    /\ LET t == TableOf[site][vi]
           raw_matches == IF t.matches = <<>> THEN RawOf[site][vi] ELSE <<>>
           found == all_matches \o t.matches \o raw_matches
       IN  /\ fetched' = Append(fetched, <<"variant", vi>>) \o DetailTags(t.details)
           /\ IF t.raised
              THEN /\ pc' = "failed"
                   /\ err' = "parse"
                   /\ UNCHANGED <<all_matches, vi>>
              ELSE /\ all_matches' = found
                   /\ err' = err
                   /\ IF found # <<>>
                      THEN pc' = "aggregate" /\ vi' = vi
                      ELSE pc' = pc /\ vi' = vi + 1
    /\ UNCHANGED <<config, store, ledger, site, run, prev, siteChanged, matches_final, idx>>

\* main: try_fetch_variants is exhausted
VariantsExhausted ==
    /\ pc = "discover" /\ prog = "bo3" /\ vi > NumVariants
    /\ pc' = "aggregate"
    /\ UNCHANGED <<config, store, ledger, site, run, prev, siteChanged, err, discovery,
                   matches_final, idx>>

\* main: the candidates are deduplicated; with none, main returns
Aggregate ==
    /\ pc = "aggregate"
    /\ matches_final' = Dedup(all_matches)
    /\ pc' = IF Dedup(all_matches) = <<>> THEN "done" ELSE "reconcile"
    /\ idx' = 1
    /\ UNCHANGED <<config, store, ledger, site, run, prev, siteChanged, err, discovery>>

\* navi main: requests.get raises, or raise_for_status does
NaviFetchFails ==
    /\ pc = "discover" /\ prog = "navi"
    /\ fetched' = Append(fetched, <<"failed", 1>>)
    /\ pc' = "failed"
    /\ err' = "fetch"
    /\ UNCHANGED <<config, store, ledger, site, run, prev, siteChanged, vi, all_matches,
                   matches_final, idx>>

\* navi main: parse_upcoming_matches returns
NaviDiscover ==
    /\ pc = "discover" /\ prog = "navi"
    /\ fetched' = Append(fetched, <<"variant", 1>>)
    /\ all_matches' = UpcomingOf[site]
    /\ matches_final' = UpcomingOf[site]
    /\ pc' = "reconcile"
    /\ idx' = 1
    /\ UNCHANGED <<config, store, ledger, site, run, prev, siteChanged, err, vi>>

(***************************************************************************)
(* create_events: one action per outcome of an iteration of its loop.      *)
(***************************************************************************)
Call(op, m, ok) ==
    [op |-> op, summary |-> m.summary, start |-> m.start_dt_str, ok |-> ok]

\* execute() may raise: always on an inaccessible calendar, now and then otherwise
MayFail == ~calendarAccessible \/ failures < MaxFailures

Failed ==
    /\ pc' = "failed"
    /\ err' = IF calendarAccessible THEN "calendar" ELSE "access"
    /\ failures' = IF calendarAccessible THEN failures + 1 ELSE failures

InLoop == pc = "reconcile" /\ idx <= Len(matches_final)

\* the calls before the insert of matches_final[idx]
Listed == IF ChecksDuplicates THEN <<Call("list", matches_final[idx], TRUE)>> ELSE <<>>

\* has_duplicate_event: events().list(...).execute() raises
ListFails ==
    /\ InLoop /\ ChecksDuplicates /\ MayFail
    /\ calls' = Append(calls, Call("list", matches_final[idx], FALSE))
    /\ Failed
    /\ UNCHANGED <<config, site, run, prev, siteChanged, discovery, matches_final, idx,
                   events, pending, lagged>>

\* a reconciler that patches the event it found to the candidate's start and end
SkipDuplicate_Patches ==
    /\ InLoop /\ ChecksDuplicates /\ calendarAccessible
    /\ has_duplicate_event(matches_final[idx])
    /\ \E ev \in events :
          /\ ev.summary = matches_final[idx].summary
          /\ events' = (events \ {ev}) \cup
                        {[ev EXCEPT !.start = Instant(matches_final[idx].start_dt_str),
                                    !.end = Instant(matches_final[idx].start_dt_str) + 120]}
    /\ calls' = calls \o Listed \o <<Call("patch", matches_final[idx], TRUE)>>
    /\ idx' = idx + 1
    /\ UNCHANGED <<config, site, run, prev, siteChanged, discovery, matches_final, pc, err,
                   pending, failures, lagged>>

\* has_duplicate_event returns True: continue
SkipDuplicate ==
    /\ InLoop /\ ChecksDuplicates /\ calendarAccessible
    /\ has_duplicate_event(matches_final[idx])
    /\ calls' = calls \o Listed
    /\ idx' = idx + 1
    /\ UNCHANGED <<config, site, run, prev, siteChanged, discovery, matches_final, pc, err,
                   events, pending, failures, lagged>>

\* events().insert(...).execute() raises
InsertFails ==
    /\ InLoop /\ MayFail
    /\ ChecksDuplicates => calendarAccessible /\ ~has_duplicate_event(matches_final[idx])
    /\ calls' = calls \o Listed \o <<Call("insert", matches_final[idx], FALSE)>>
    /\ Failed
    /\ UNCHANGED <<config, site, run, prev, siteChanged, discovery, matches_final, idx,
                   events, pending, lagged>>

\* events().insert(...).execute() returns; list queries reflect the event at once, or
\* only once the store has caught up (they never reflect an event before an older one)
InsertEvent ==
    /\ InLoop /\ calendarAccessible
    /\ ChecksDuplicates => ~has_duplicate_event(matches_final[idx])
    /\ calls' = calls \o Listed \o <<Call("insert", matches_final[idx], TRUE)>>
    /\ idx' = idx + 1
    /\ \E reflected \in (IF pending = {} THEN BOOLEAN ELSE {FALSE}) :
          IF reflected
          THEN /\ events' = events \cup {NewEvent(matches_final[idx])}
               /\ UNCHANGED <<pending, lagged>>
          ELSE /\ pending' = pending \cup {NewEvent(matches_final[idx])}
               /\ lagged' = TRUE
               /\ events' = events
    /\ UNCHANGED <<config, site, run, prev, siteChanged, discovery, matches_final, pc, err,
                   failures>>

\* create_events returns, main prints [DONE]
CreateDone ==
    /\ pc = "reconcile" /\ idx > Len(matches_final)
    /\ pc' = "done"
    /\ UNCHANGED <<config, store, ledger, site, run, prev, siteChanged, discovery, matches_final,
                   idx, err>>

(***************************************************************************)
(* The environment: the store catches up, the site changes, the script is  *)
(* started again.                                                          *)
(***************************************************************************)
\* the store catches up: list queries reflect every event inserted so far
Propagate ==
    /\ pending # {}
    /\ events' = events \cup pending
    /\ pending' = {}
    /\ UNCHANGED <<config, site, run, prev, siteChanged, discovery, matches_final, idx,
                   pc, err, calls, failures, lagged>>

NextRun ==
    /\ pc \in {"done", "failed"} /\ run < MaxRuns
    /\ run' = run + 1
    /\ pc' = "idle"
    /\ prev' = [pc |-> pc, final |-> matches_final, events |-> events \cup pending]
    /\ siteChanged' = FALSE
    /\ err' = "none"
    /\ vi' = 1
    /\ fetched' = <<>>
    /\ all_matches' = <<>>
    /\ matches_final' = <<>>
    /\ idx' = 1
    /\ calls' = <<>>
    /\ lagged' = FALSE
    /\ UNCHANGED <<config, store, site>>

SiteChange ==
    /\ pc = "idle" /\ run > 1 /\ ~siteChanged
    /\ \E s \in DOMAIN Sites \ {site} : site' = s
    /\ siteChanged' = TRUE
    /\ UNCHANGED <<config, store, ledger, run, prev, discovery, matches_final, idx, pc, err>>

Next ==
    \/ MissingCredentials
    \/ StartRun
    \/ FetchVariantFails
    \/ FetchVariant
    \/ VariantsExhausted
    \/ Aggregate
    \/ NaviFetchFails
    \/ NaviDiscover
    \/ ListFails
    \/ SkipDuplicate
    \/ InsertFails
    \/ InsertEvent
    \/ CreateDone
    \/ Propagate
    \/ NextRun
    \/ SiteChange

Spec == Init /\ [][Next]_vars

(***************************************************************************)
(* The year of a label without one, on its own: every month and day        *)
(* strptime accepts, against several todays and links.                     *)
(***************************************************************************)
YearTodays ==
    {<<2025, 1, 1>>, <<2025, 2, 28>>, <<2025, 9, 1>>, <<2025, 12, 31>>, <<2026, 6, 15>>,
     <<2028, 2, 29>>}

YearHrefs == {NoHref, [id |-> 1, year |-> 0], [id |-> 1, year |-> 2024], [id |-> 1, year |-> 2027]}

InitYear ==
    /\ \E p \in {"bo3", "navi"}, t \in YearTodays, m \in 1..12, d \in 1..31, h \in YearHrefs :
          /\ StrptimeMD(<<m, d>>)
          /\ p = "navi" => h.id # 0
          /\ yq = [prog |-> p, today |-> t, month |-> m, day |-> d, href |-> h, result |-> 0]
          /\ prog = p
    /\ STRICT_DUP_CHECK = FALSE
    /\ calendarAccessible = TRUE
    /\ site = 1
    /\ run = 1
    /\ pc = "idle"
    /\ err = "none"
    /\ vi = 1
    /\ fetched = <<>>
    /\ all_matches = <<>>
    /\ matches_final = <<>>
    /\ idx = 1
    /\ events = {}
    /\ pending = {}
    /\ calls = <<>>
    /\ failures = 0
    /\ prev = [pc |-> "none", final |-> <<>>, events |-> {}]
    /\ siteChanged = FALSE
    /\ lagged = FALSE

main == <<STRICT_DUP_CHECK, calendarAccessible, site, run, pc, err, vi, fetched, all_matches,
          matches_final, idx, events, pending, calls, failures, prev, siteChanged, lagged>>

\* bo3_calendar: y = infer_year(href, parsed_md.month, parsed_md.day, tz_local)
Bo3Year ==
    /\ yq.prog = "bo3" /\ yq.result = 0
    /\ yq' = [yq EXCEPT !.result = infer_year(yq.href, yq.month, yq.day, yq.today)]
    /\ UNCHANGED <<prog, main>>

\* navi_calendar: year_int, from the link or datetime.now().year
NaviYear ==
    /\ yq.prog = "navi" /\ yq.result = 0
    /\ yq' = [yq EXCEPT !.result = navi_year(yq.href, yq.today)]
    /\ UNCHANGED <<prog, main>>

NextYear == Bo3Year \/ NaviYear

SpecYear == InitYear /\ [][NextYear]_vars

(***************************************************************************)
(* What the claims speak of.                                               *)
(***************************************************************************)
\* the calls of this run, by operation
CallsOf(op) == {i \in 1..Len(calls) : calls[i].op = op}
Created == {i \in CallsOf("insert") : calls[i].ok}
\* the calls of this run for candidate m
CallsFor(op, m) ==
    {i \in CallsOf(op) : calls[i].summary = m.summary /\ calls[i].start = m.start_dt_str}

\* this run returned from create_events, or found nothing to create
Completed == pc = "done"

\* this run followed a completed run that handed the same candidates to create_events
Repeated == prev.pc = "done" /\ prev.final = matches_final

\* no two candidates of the run are of the same two teams
DistinctTeams ==
    \A i, j \in 1..Len(matches_final) :
        i # j => SubSeq(matches_final[i].summary, 1, 3) # SubSeq(matches_final[j].summary, 1, 3)

Moved(m, ev) ==
    /\ ev.summary = m.summary
    /\ \/ ev.start = Instant(m.start_dt_str) + 90
       \/ ev.start = Instant(m.start_dt_str) - 90

\* the candidates of this run that the calendar held 90 minutes apart before the run
Rescheduled == {i \in 1..Len(matches_final) : \E ev \in prev.events : Moved(matches_final[i], ev)}

C3_FailureIsolation ==
    (pc \in {"done", "failed"} /\ err \in {"none", "calendar"}) =>
        \A i \in 1..Len(matches_final) :
            CallsFor("list", matches_final[i]) \cup CallsFor("insert", matches_final[i]) # {}

\* C4: whatever the document and however late the store reflects an insert, one run
\* issues at most one create call per candidate key (summary, start).
C4_NoDoubleCreate ==
    \A i, j \in Created :
        i # j => <<calls[i].summary, calls[i].start>> # <<calls[j].summary, calls[j].start>>

\* C5: the deduplicated list holds one record per key (summary, start), every key of
\* the discovered candidates, and for each key the first record discovered with it.
C5_FirstSeenWins ==
    (prog = "bo3" /\ pc \in {"reconcile", "done"}) =>
        /\ \A i, j \in 1..Len(matches_final) :
                i # j => Key(matches_final[i]) # Key(matches_final[j])
        /\ \A j \in 1..Len(all_matches) :
                \E k \in 1..Len(matches_final) : Key(matches_final[k]) = Key(all_matches[j])
        /\ \A k \in 1..Len(matches_final) :
                \E j \in 1..Len(all_matches) :
                    /\ matches_final[k] = all_matches[j]
                    /\ \A i \in 1..(j - 1) : Key(all_matches[i]) # Key(all_matches[j])

\* the URL variants this run has tried, in order
Tried == SelectSeq(fetched, LAMBDA f : f[1] \in {"variant", "failed"})

\* what the page of variant v yields: the table rows, or else the raw scan
Yield(v) ==
    IF TableOf[site][v].matches # <<>> THEN TableOf[site][v].matches ELSE RawOf[site][v]

\* C6: the URL variants are tried in their fixed order; a variant is tried only when
\* every variant before it failed to fetch or yielded no candidate; once a variant has
\* yielded a candidate no further variant is fetched, and the candidates of the run are
\* those of that one variant; a run leaves discovery without candidates only after the
\* last variant.
C6_VariantShortCircuit ==
    prog = "bo3" =>
        /\ \A i \in 1..Len(Tried) : Tried[i][2] = i
        /\ \A i \in 1..(Len(Tried) - 1) : Tried[i][1] = "failed" \/ Yield(i) = <<>>
        /\ all_matches # <<>> =>
                /\ Tried[Len(Tried)][1] = "variant"
                /\ all_matches = Yield(Len(Tried))
                /\ pc # "discover"
        /\ (pc \in {"aggregate", "reconcile", "done"} /\ all_matches = <<>>) =>
                Len(Tried) = NumVariants

\* the first variant yielded nothing, the second failed to fetch, the third yielded the
\* candidates of the run, and no fourth was fetched
C6_Witness ==
    /\ prog = "bo3" /\ pc = "aggregate"
    /\ Len(Tried) = 3
    /\ Tried[1][1] = "variant" /\ Tried[2][1] = "failed" /\ Tried[3][1] = "variant"
    /\ all_matches # <<>>

\* some fetch of a listing page failed in this run
FetchFailed == \E k \in 1..Len(fetched) : fetched[k][1] = "failed"

C8_ConfigFailureBeforeDiscovery ==
    (pc = "failed" /\ err \in {"config", "access"}) => fetched = <<>> /\ Created = {}

\* a row with a link, two team cells and a date and a time that parse
WellFormed(row) ==
    /\ row.href.id # 0 /\ Len(row.teams) >= 2
    /\ row.date # <<>> /\ row.time # <<>>
    /\ StrptimeMD(row.date) /\ row.time[1] \in 0..23 /\ row.time[2] \in 0..59

\* a row with neither date nor time, in its date cell or in its text
Dateless(row) ==
    row.date = <<>> /\ row.time = <<>> /\ row.textMD = <<>> /\ row.textHM = <<>>

\* a document of one well-formed row and one row without date and time
OneGoodOneDateless(doc) ==
    /\ Len(doc.rows) = 2
    /\ \E i, j \in 1..2 : i # j /\ WellFormed(doc.rows[i]) /\ Dateless(doc.rows[j])

\* C9: discovery over a document of one well-formed row and one row without date and
\* time yields exactly one candidate, and no exception leaves discovery.
C9_MalformedRowDropped ==
    \A k \in 1..Len(fetched) :
        (fetched[k][1] = "variant" /\ OneGoodOneDateless(Sites[site][fetched[k][2]])) =>
            err # "parse" /\ Len(all_matches) = 1

\* C10: without a year in the link the resolved year is that of the soonest occurrence
\* of the month and day that is not before today; with one, it is the link's year.
C10_SoonestOccurrence ==
    yq.result # 0 =>
        IF yq.href.year # 0 THEN yq.result = yq.href.year
        ELSE /\ DateGE(<<yq.result, yq.month, yq.day>>, yq.today)
             /\ ~DateGE(<<yq.result - 1, yq.month, yq.day>>, yq.today)

\* the pages parse_table_rows has been given in this run
PagesParsed == {fetched[k][2] : k \in {j \in 1..Len(fetched) : fetched[j][1] = "variant"}}

\* the match pages fetched in this run
DetailsFetched == {fetched[k][2] : k \in {j \in 1..Len(fetched) : fetched[j][1] = "detail"}}

\* the detail tier of a row resolves a start: the match page loads and holds a
\* structured timestamp, or a month-day and a time that make a date and time
DetailResolves(row) ==
    /\ row.detail.ok
    /\ \/ row.detail.iso # <<>>
       \/ /\ row.detail.md # <<>> /\ row.detail.hm # <<>>
          /\ StrptimeMD(row.detail.md)
          /\ ValidDateTime(infer_year(row.href, row.detail.md[1], row.detail.md[2], Today),
                           row.detail.md[1], row.detail.md[2],
                           row.detail.hm[1], row.detail.hm[2])

\* some tier of the row resolves a start
SomeTierResolves(row) ==
    RowStart(row, Today) # <<>> \/ (row.href.id # 0 /\ DetailResolves(row))

\* the candidates discovery holds for the row's link
CandidatesOf(row) == {i \in 1..Len(all_matches) : all_matches[i].link = row.href.id}

\* C11: a row's match page is fetched only when neither its date and time cells nor its
\* text resolved a start and the row has a link; a structured timestamp of the match
\* page is used in preference to its text; a row for which every tier fails is dropped
\* (nothing is raised), and a row for which some tier resolves emits one candidate.
C11_FallbackOrdering ==
    prog = "bo3" =>
        \A v \in PagesParsed :
            LET rows == Sites[site][v].rows
                named == {i \in 1..Len(rows) : RowTeams(rows[i]) # <<>>}
            IN  /\ \A id \in DetailsFetched :
                       \E i \in named :
                           /\ rows[i].href.id = id /\ id # 0
                           /\ RowStart(rows[i], Today) = <<>>
                /\ err # "parse"
                /\ \A i \in named :
                       /\ ParseRow(rows[i], Today).out =
                              IF SomeTierResolves(rows[i]) THEN "emit" ELSE "drop"
                       /\ (RowStart(rows[i], Today) = <<>> /\ rows[i].href.id # 0
                              /\ rows[i].detail.ok /\ rows[i].detail.iso # <<>>) =>
                              LET iso == rows[i].detail.iso
                              IN  ParseRow(rows[i], Today).cand.start_dt_str =
                                     UtcToKyiv(iso[1],
                                               Minutes(iso[1], iso[2], iso[3], iso[4], iso[5]))
                /\ rows # <<>> =>
                       Len(TableOf[site][v].matches) =
                           Cardinality({i \in named : SomeTierResolves(rows[i])})

\* the events the calendar holds, reflected by list queries or not yet
Stored == events \cup pending

\* C12: the calendar is only ever appended to.  Every step keeps every stored event as it
\* is (same id, summary, start, end), so the number of events never decreases; the
\* calendar changes only by one event, along with a successful insert call for the
\* candidate at hand, and the program issues no call other than list and insert.
C12_AppendOnly ==
    [][/\ Stored \subseteq Stored'
       /\ Cardinality(Stored') >= Cardinality(Stored)
       /\ \A i \in 1..Len(calls') : calls'[i].op \in {"list", "insert"}
       /\ Stored' # Stored =>
              /\ Cardinality(Stored') = Cardinality(Stored) + 1
              /\ InLoop
              /\ calls' # <<>>
              /\ calls'[Len(calls')] = Call("insert", matches_final[idx], TRUE)
              /\ Len(calls') \in {Len(calls) + 1, Len(calls) + 2}
       /\ prev.events \subseteq Stored]_vars

\* a second run has added an event to a calendar that held events before it, after
\* finding one of its candidates already there
C12_Witness ==
    /\ run = 2 /\ Completed
    /\ prev.events # {} /\ prev.events \subseteq Stored /\ prev.events # Stored
    /\ Created # {}
    /\ \E i \in CallsOf("list") : CallsFor("insert", [summary |-> calls[i].summary,
                                                        start_dt_str |-> calls[i].start]) = {}

====
